---- MODULE Spec2Model ----
(***************************************************************************)
(* Model of the Avro -> Arrow decoder of crates/arroyo-formats             *)
(* (src/avro/reader.rs).                                                   *)
(*                                                                         *)
(* Encoding of the Rust data:                                              *)
(*   Option<T>      None == <<>>, Some(x) == <<x>>                         *)
(*   Result / panic [st |-> "Ok" | "Err" | "Panic", val |-> ...]           *)
(*   AvroValue      a tuple whose first element is the variant name        *)
(*   DataType       a tuple whose first element is the variant name        *)
(*   Field          [name, data_type, nullable]                            *)
(*   arrow arrays   records with data_type, len and the buffers            *)
(***************************************************************************)
EXTENDS Integers, Sequences, FiniteSets, TLC

\* ------------------------------------------------------------------ Option
None == <<>>

Some(x) == <<x>>

\* ------------------------------------------------- Result, and a panic
Ok(v) == [st |-> "Ok", val |-> v]

\* An error carries its message and, where the code formats one in, the type.
Err(m) == [st |-> "Err", val |-> <<m>>]

ErrOf(m, data_type) == [st |-> "Err", val |-> <<m, data_type>>]

Panic(m) == [st |-> "Panic", val |-> m]

\* Iterator<Item = Result<T>>::collect::<Result<Vec<T>>>(): the items are
\* produced in order and the first one that is not Ok ends the iteration.
Collect(rs) ==
    IF \E i \in DOMAIN rs : rs[i].st # "Ok"
    THEN rs[CHOOSE i \in DOMAIN rs :
                /\ rs[i].st # "Ok"
                /\ \A j \in 1..(i - 1) : rs[j].st = "Ok"]
    ELSE Ok([i \in DOMAIN rs |-> rs[i].val])

\* `?` and Result::and_then: go on with the value, or hand the failure up.
AndThen(r, F(_)) == IF r.st = "Ok" THEN F(r.val) ELSE r

\* Result::ok
OkOrNone(r) == IF r.st = "Ok" THEN Some(r.val) ELSE None

RECURSIVE Concat(_)
\* Iterator::flat_map(..).collect(): the concatenation of a sequence of sequences.
Concat(ss) ==
    IF ss = <<>> THEN <<>> ELSE Head(ss) \o Concat(Tail(ss))

RECURSIVE SumSeq(_)
SumSeq(ns) ==
    IF ns = <<>> THEN 0 ELSE Head(ns) + SumSeq(Tail(ns))

\* ---------------------------------------------------------------- AvroValue
AvroNull == <<"Null">>

AvroBoolean(b) == <<"Boolean", b>>

AvroInt(n) == <<"Int", n>>

\* An i64 is held as two limbs, hi * 2^16 + lo with lo in 0 .. 2^16 - 1, so
\* that values beyond 32 bits are values of the model.
AvroLong(hi, lo) == <<"Long", hi, lo>>

AvroString(s) == <<"String", s>>

AvroBytes(bs) == <<"Bytes", bs>>

AvroEnum(s) == <<"Enum", s>>

AvroArray(items) == <<"Array", items>>

AvroRecord(fields) == <<"Record", fields>>

AvroUnion(inner) == <<"Union", inner>>

AvroFixed(n, bs) == <<"Fixed", n, bs>>

\* ----------------------------------------------------------------- DataType
Field(name, data_type, nullable) ==
    [name |-> name, data_type |-> data_type, nullable |-> nullable]

DT(k) == <<k>>

Timestamp(unit) == <<"Timestamp", unit>>

Time32(unit) == <<"Time32", unit>>

Time64(unit) == <<"Time64", unit>>

FixedSizeBinary(size) == <<"FixedSizeBinary", size>>

List(field) == <<"List", field>>

LargeList(field) == <<"LargeList", field>>

Struct(fields) == <<"Struct", fields>>

Dictionary(key_type, value_type) == <<"Dictionary", key_type, value_type>>

\* The range of T::Native for the numeric and temporal arrow types. The values
\* of the model are machine integers of the checker, so a 64-bit (or unsigned
\* 32-bit) upper limit is above every value the model can hold.
InRange(T, n) ==
    CASE T[1] = "Int8" -> n >= -128 /\ n <= 127
      [] T[1] = "Int16" -> n >= -32768 /\ n <= 32767
      [] T[1] \in {"Int32", "Date32", "Time32"} -> TRUE
      [] T[1] \in {"Int64", "Date64", "Time64", "Timestamp"} -> TRUE
      [] T[1] = "UInt8" -> n >= 0 /\ n <= 255
      [] T[1] = "UInt16" -> n >= 0 /\ n <= 65535
      [] T[1] \in {"UInt32", "UInt64"} -> n >= 0
      [] T[1] \in {"Float32", "Float64"} -> TRUE

\* A cast that hands every value on, in range or not.
NumCastUnchecked(T, n) == Some(n)

\* num_traits::NumCast::from: the value when T::Native can hold it, else None.
NumCast(T, n) ==
    IF InRange(T, n) THEN Some(n) ELSE None

Limb == 65536

\* An i64 of limbs hi, lo lies within 32 bits.
Fits32(hi) == hi >= -32768 /\ hi <= 32767

\* The range of T::Native for an i64 beyond 32 bits.
InRangeWide(T, hi) ==
    CASE T[1] \in {"Int64", "Date64", "Time64", "Timestamp", "Float32", "Float64"} ->
            TRUE
      [] T[1] = "UInt32" -> hi >= 0 /\ hi < Limb
      [] T[1] = "UInt64" -> hi >= 0
      [] OTHER -> FALSE

\* NumCast::from(i64): a value beyond 32 bits that T::Native holds stays in limbs.
NumCastLong(T, hi, lo) ==
    IF Fits32(hi) THEN NumCast(T, hi * Limb + lo)
    ELSE IF InRangeWide(T, hi) THEN Some(<<hi, lo>>) ELSE None

\* `n as i32` of an i64: the low 32 bits, read as a signed number.
as_i32(hi, lo) ==
    (IF hi % Limb >= 32768 THEN (hi % Limb) - Limb ELSE hi % Limb) * Limb + lo

\* ---------------------------------------------------------------- resolvers
maybe_resolve_union(value) ==
    IF value[1] = "Union" THEN value[2] ELSE value

\* impl Resolver for N: Ok(Option<Native>), or the panic of unimplemented!()
\* and unreachable!(). Float and Double values of the model are integral.
resolve(T, value) ==
    LET v == maybe_resolve_union(value) IN
    CASE v[1] \in {"Int", "TimeMillis", "Date"} -> Ok(NumCast(T, v[2]))
      [] v[1] \in {"Long", "TimeMicros", "TimestampMillis", "TimestampMicros"} ->
            Ok(NumCastLong(T, v[2], v[3]))
      [] v[1] \in {"Float", "Double"} -> Ok(NumCast(T, v[2]))
      [] v[1] = "Duration" -> Panic("not implemented")
      [] v[1] = "Null" -> Ok(None)
      [] OTHER -> Panic("internal error: entered unreachable code")

resolve_item(T, value) == resolve(T, value)

resolve_boolean(value) ==
    LET v == IF value[1] = "Union" THEN value[2] ELSE value IN
    IF v[1] = "Boolean" THEN Some(v[2]) ELSE None

\* The characters of the byte values the model uses ("x", "y", "z").
Chr(b) ==
    CASE b = 120 -> "x" [] b = 121 -> "y" [] b = 122 -> "z" [] OTHER -> "?"

RECURSIVE Utf8Decode(_)
\* String::from_utf8 over single-byte code points.
Utf8Decode(bs) ==
    IF bs = <<>> THEN "" ELSE Chr(Head(bs)) \o Utf8Decode(Tail(bs))

\* Every byte below 0x80 is a one-byte code point; the model holds no
\* multi-byte sequence, so any byte from 0x80 up makes the input invalid.
Utf8Valid(bs) == \A i \in DOMAIN bs : bs[i] >= 0 /\ bs[i] < 128

resolve_string(value) ==
    LET v == IF value[1] = "Union" THEN value[2] ELSE value IN
    CASE v[1] = "String" -> Ok(Some(v[2]))
      [] v[1] = "Bytes" ->
            IF Utf8Valid(v[2]) THEN Ok(Some(Utf8Decode(v[2])))
            ELSE Err("expected resolvable string : ConvertToUtf8")
      [] v[1] = "Enum" -> Ok(Some(v[2]))
      [] v[1] = "Null" -> Ok(None)
      [] OTHER -> Err("expected resolvable string : GetString")

\* The Int the match yields: an Int as it is, a Long through `*n as i32`.
resolve_u8_int(v) == IF v[1] = "Int" THEN v[2] ELSE as_i32(v[2], v[3])

resolve_u8(v) ==
    IF v[1] \in {"Int", "Long"}
    THEN IF resolve_u8_int(v) >= 0 /\ resolve_u8_int(v) <= 255
         THEN Ok(resolve_u8_int(v))
         ELSE Err("GetU8")
    ELSE Err("GetU8")

Ord(s) ==
    CASE s = "x" -> 120 [] s = "y" -> 121 [] s = "z" -> 122 [] OTHER -> 63

\* String::into_bytes for the one-character strings of the model.
IntoBytes(s) == IF s = "" THEN <<>> ELSE <<Ord(s)>>

resolve_bytes(value) ==
    LET v == IF value[1] = "Union" THEN value[2] ELSE value IN
    CASE v[1] = "Bytes" -> Some(v[2])
      [] v[1] = "String" -> Some(IntoBytes(v[2]))
      [] v[1] = "Array" ->
            OkOrNone(Collect([i \in DOMAIN v[2] |-> resolve_u8(v[2][i])]))
      [] OTHER -> None

resolve_fixed(value, size) ==
    LET v == IF value[1] = "Union" THEN value[2] ELSE value IN
    IF v[1] = "Fixed" /\ v[2] = size THEN Some(v[3]) ELSE None

\* ------------------------------------------------------------- arrow arrays
\* BooleanArray, PrimitiveArray<T>, StringArray, BinaryArray,
\* FixedSizeBinaryArray: one Option per slot.
ValuesArray(data_type, vals) ==
    [kind |-> "values", data_type |-> data_type, len |-> Len(vals), vals |-> vals]

NullArray(n) ==
    [kind |-> "null", data_type |-> DT("Null"), len |-> n]

\* DictionaryArray<K> of strings: one Option<key> per slot and the value table.
DictionaryArray(K, keys, values) ==
    [kind |-> "dict", data_type |-> Dictionary(K, DT("Utf8")), len |-> Len(keys),
     keys |-> keys, values |-> values]

StructArray(fields, n, valid, children) ==
    [kind |-> "struct", data_type |-> Struct(fields), len |-> n,
     valid |-> valid, children |-> children]

ListArray(field, n, offsets, valid, child) ==
    [kind |-> "list", data_type |-> List(field), len |-> n,
     offsets |-> offsets, valid |-> valid, child |-> child]

\* Array::null_count: the unset validity bits (a NullArray has no validity buffer).
null_count(a) ==
    CASE a.kind = "values" -> Cardinality({i \in DOMAIN a.vals : a.vals[i] = None})
      [] a.kind = "dict" -> Cardinality({i \in DOMAIN a.keys : a.keys[i] = None})
      [] a.kind \in {"struct", "list"} ->
            Cardinality({i \in DOMAIN a.valid : ~a.valid[i]})
      [] a.kind = "null" -> 0

\* ------------------------------------------------------------- field_lookup
\* The body is `None`: the lookup through the schema index is commented out.
field_lookup(name, row) == None

\* ---------------------------------------------------------- scalar columns
\* Option::and_then over the looked-up value.
lookup_and_then(l, F(_)) == IF l = None THEN None ELSE F(l[1])

build_boolean_array(rows, col_name) ==
    ValuesArray(DT("Boolean"),
        [i \in DOMAIN rows |->
            lookup_and_then(field_lookup(col_name, rows[i]), resolve_boolean)])

\* The item of one row: Ok(Option<Native>), or the resolver's panic.
primitive_item(T, l) == IF l = None THEN Ok(None) ELSE resolve_item(T, l[1])

\* Ok(array), or the panic of the resolver on the first row that raises it.
build_primitive_array(T, rows, col_name) ==
    AndThen(Collect([i \in DOMAIN rows |->
                primitive_item(T, field_lookup(col_name, rows[i]))]),
            LAMBDA vals : Ok(ValuesArray(T, vals)))

\* ------------------------------------------------------ dictionary columns
\* StringDictionaryBuilder<K>: keys appended so far and the value table.
build_string_dictionary_builder == [keys |-> <<>>, values |-> <<>>]

IndexOf(seq, x) == CHOOSE i \in DOMAIN seq : seq[i] = x

\* StringDictionaryBuilder::append: the key of a known string, or the next key;
\* DictionaryKeyOverflowError when K::Native cannot hold the next key.
dictionary_append(K, b, s) ==
    IF \E i \in DOMAIN b.values : b.values[i] = s
    THEN Ok([b EXCEPT !.keys = Append(@, Some(IndexOf(b.values, s) - 1))])
    ELSE IF InRange(K, Len(b.values))
         THEN Ok([keys |-> Append(b.keys, Some(Len(b.values))),
                  values |-> Append(b.values, s)])
         ELSE Err("DictionaryKeyOverflowError")

dictionary_append_null(b) == [b EXCEPT !.keys = Append(@, None)]

\* `if let Ok(Some(str_v)) = resolve_string(value)`: append, else a null.
dictionary_row_value(K, b, r) ==
    IF r.st = "Ok" /\ r.val # None
    THEN dictionary_append(K, b, r.val[1])
    ELSE Ok(dictionary_append_null(b))

\* The body of the loop of build_dictionary_array for one row.
dictionary_row(K, b, l) ==
    IF l = None THEN Ok(dictionary_append_null(b))
    ELSE dictionary_row_value(K, b, resolve_string(l[1]))

RECURSIVE build_dictionary_rows(_, _, _, _, _)
\* The loop of build_dictionary_array from row i on, with builder b.
build_dictionary_rows(K, rows, col_name, i, b) ==
    IF i > Len(rows) THEN Ok(b)
    ELSE AndThen(dictionary_row(K, b, field_lookup(col_name, rows[i])),
                 LAMBDA nb : build_dictionary_rows(K, rows, col_name, i + 1, nb))

build_dictionary_array(K, rows, col_name) ==
    AndThen(build_dictionary_rows(K, rows, col_name, 1,
                                  build_string_dictionary_builder),
            LAMBDA b : Ok(DictionaryArray(K, b.keys, b.values)))

DictionaryKeyTypes ==
    {DT("Int8"), DT("Int16"), DT("Int32"), DT("Int64"),
     DT("UInt8"), DT("UInt16"), DT("UInt32"), DT("UInt64")}

build_string_dictionary_array(rows, col_name, key_type, value_type) ==
    IF value_type = DT("Utf8")
    THEN IF key_type \in DictionaryKeyTypes
         THEN build_dictionary_array(key_type, rows, col_name)
         ELSE Err("unsupported dictionary key type")
    ELSE Err("dictionary types other than UTF-8 not yet supported")

\* --------------------------------------- list of (dictionary) string column
\* The strings one (union-unwrapped) row value contributes: `vals`.
list_row_vals(value) ==
    IF value[1] = "String" THEN Ok(<<Some(value[2])>>)
    ELSE IF value[1] = "Array"
    THEN Collect([i \in DOMAIN value[2] |-> resolve_string(value[2][i])])
    ELSE IF value[1] = "Null" THEN Ok(<<None>>)
    ELSE IF value[1] # "Record"
    THEN AndThen(resolve_string(value), LAMBDA o : Ok(<<o>>))
    ELSE Err("Only scalars are currently supported in Avro arrays")

RECURSIVE dictionary_append_vals(_, _, _)
\* `for val in vals` over a StringDictionaryBuilder; the first overflow ends it.
dictionary_append_vals(K, b, vals) ==
    IF vals = <<>> THEN Ok(b)
    ELSE IF Head(vals) # None
    THEN AndThen(dictionary_append(K, b, Head(vals)[1]),
                 LAMBDA nb : dictionary_append_vals(K, nb, Tail(vals)))
    ELSE dictionary_append_vals(K, dictionary_append_null(b), Tail(vals))

\* The ListBuilder lb after the values of a row went into a StringBuilder,
\* and `builder.append(true)`.
list_append_strings(lb, vals) ==
    [lb EXCEPT !.vals = @ \o vals,
               !.offsets = Append(@, Len(lb.vals) + Len(vals)),
               !.valid = Append(@, TRUE)]

\* The same with a StringDictionaryBuilder, whose new state is dict.
list_append_dictionary(lb, dict) ==
    [lb EXCEPT !.dict = dict,
               !.offsets = Append(@, Len(dict.keys)),
               !.valid = Append(@, TRUE)]

\* The body of the `for row in rows` loop for a row whose lookup found vals.
list_array_append(D, data_type, lb, vals) ==
    IF data_type[1] = "Utf8" THEN Ok(list_append_strings(lb, vals))
    ELSE AndThen(dictionary_append_vals(D, lb.dict, vals),
                 LAMBDA dict : Ok(list_append_dictionary(lb, dict)))

\* The body of the loop for one row: a row whose lookup misses appends nothing.
list_array_row(D, data_type, lb, l) ==
    IF l = None THEN Ok(lb)
    ELSE AndThen(list_row_vals(maybe_resolve_union(l[1])),
                 LAMBDA vals : list_array_append(D, data_type, lb, vals))

RECURSIVE list_array_rows(_, _, _, _, _, _)
\* The `for row in rows` loop of list_array_string_array_builder from row i on.
\* lb is the ListBuilder: offsets, validity, and the values builder (vals for a
\* StringBuilder, dict for a StringDictionaryBuilder).
list_array_rows(D, data_type, col_name, rows, i, lb) ==
    IF i > Len(rows) THEN Ok(lb)
    ELSE AndThen(list_array_row(D, data_type, lb, field_lookup(col_name, rows[i])),
                 LAMBDA nb : list_array_rows(D, data_type, col_name, rows, i + 1, nb))

\* builder.finish(): ListBuilder names the element field "item", nullable.
list_builder_finish(lb, child) ==
    ListArray(Field("item", child.data_type, TRUE), Len(lb.valid), lb.offsets,
              lb.valid, child)

list_builder_values(D, data_type, lb) ==
    IF data_type[1] = "Utf8" THEN ValuesArray(DT("Utf8"), lb.vals)
    ELSE DictionaryArray(D, lb.dict.keys, lb.dict.values)

list_array_string_array_builder(D, data_type, col_name, rows) ==
    IF data_type[1] \notin {"Utf8", "Dictionary"}
    THEN ErrOf("Nested list data builder type is not supported", data_type)
    ELSE AndThen(list_array_rows(D, data_type, col_name, rows, 1,
                     [offsets |-> <<0>>, valid |-> <<>>, vals |-> <<>>,
                      dict |-> build_string_dictionary_builder]),
                 LAMBDA lb : Ok(list_builder_finish(lb,
                                    list_builder_values(D, data_type, lb))))

build_wrapped_list_array(rows, col_name, key_type) ==
    IF key_type \in DictionaryKeyTypes
    THEN list_array_string_array_builder(key_type,
             Dictionary(key_type, DT("Utf8")), col_name, rows)
    ELSE ErrOf("Data type is currently not supported for dictionaries in list",
               key_type)

\* ----------------------------------------------------- nested list builder
\* One row of flatten_values, after the union unwrap.
flatten_row(v) == IF v[1] = "Array" THEN v[2] ELSE <<v>>

flatten_values(values) ==
    Concat([i \in DOMAIN values |-> flatten_row(maybe_resolve_union(values[i]))])

\* resolve_string(..).ok().flatten()
string_or_none(r) == IF r.st = "Ok" THEN r.val ELSE None

\* One row of flatten_string_values, after the union unwrap.
flatten_string_row(row) ==
    IF row[1] = "Array"
    THEN [k \in DOMAIN row[2] |-> string_or_none(resolve_string(row[2][k]))]
    ELSE IF row[1] = "Null" THEN <<>>
    ELSE <<string_or_none(resolve_string(row))>>

flatten_string_values(values) ==
    Concat([i \in DOMAIN values |->
        flatten_string_row(maybe_resolve_union(values[i]))])

\* `if let Some(f) = resolve_item(row) { vec![Some(f)] } else { vec![] }`
primitive_scalar_values(o) == IF o # None THEN Ok(<<o>>) ELSE Ok(<<>>)

\* What one (union-unwrapped) row gives to read_primitive_list_values:
\* Ok(sequence of Option), or the resolver's panic.
primitive_row_values(T, row) ==
    IF row[1] = "Array"
    THEN Collect([k \in DOMAIN row[2] |-> resolve_item(T, row[2][k])])
    ELSE AndThen(resolve_item(T, row), primitive_scalar_values)

read_primitive_list_values(T, rows) ==
    AndThen(Collect([i \in DOMAIN rows |->
                primitive_row_values(T, maybe_resolve_union(rows[i]))]),
            LAMBDA per_row : Ok(ValuesArray(T, Concat(per_row))))

\* An offsets loop in which a null row moves cur_offset like a scalar row.
list_row_len_null_one(v) == IF v[1] = "Array" THEN Len(v[2]) ELSE 1

\* How far one (union-unwrapped) row moves cur_offset.
list_row_len(v) ==
    IF v[1] = "Array" THEN Len(v[2])
    ELSE IF v[1] = "Null" THEN 0
    ELSE 1

\* `offsets`: cur_offset before the first row and after each row.
list_offsets(rows) ==
    [i \in 1..(Len(rows) + 1) |->
        SumSeq([j \in 1..(i - 1) |-> list_row_len(maybe_resolve_union(rows[j]))])]

\* `list_nulls`: the bit of row i is set in the Array branch alone.
list_nulls(rows) ==
    [i \in DOMAIN rows |-> maybe_resolve_union(rows[i])[1] = "Array"]

\* The Boolean arm's fill for one row: the rows that are arrays as they stand
\* (no union unwrap) give one slot per element, the others give none.
list_boolean_row(v) ==
    IF v[1] = "Array"
    THEN [k \in DOMAIN v[2] |->
            IF v[2][k][1] = "Boolean" THEN Some(v[2][k][2]) ELSE None]
    ELSE <<>>

\* bool_values and bool_nulls: a slot the fill never reaches keeps the value
\* false and a set validity bit.
list_boolean_slots(filled, valid_len) ==
    [k \in 1..valid_len |-> IF k <= Len(filled) THEN filled[k] ELSE Some(FALSE)]

list_boolean_values(rows, valid_len) ==
    ValuesArray(DT("Boolean"),
        list_boolean_slots(Concat([i \in DOMAIN rows |-> list_boolean_row(rows[i])]),
                           valid_len))

null_struct_array == <<<<"null", AvroNull>>>>

\* One element of an array row in the Struct arm, after the union unwrap.
list_struct_element(e) ==
    IF e[1] = "Record" THEN Ok([valid |-> TRUE, record |-> e[2]])
    ELSE IF e[1] = "Null" THEN Ok([valid |-> FALSE, record |-> null_struct_array])
    ELSE Panic("expected Record")

\* The Struct arm's flat_map for one (union-unwrapped) row: Ok(sequence of
\* [valid, record]) with one entry per array element, a single null entry for
\* a row that is no array, or the panic on an element that is neither a record
\* nor null.
list_struct_row(v) ==
    IF v[1] = "Array"
    THEN Collect([k \in DOMAIN v[2] |->
            list_struct_element(maybe_resolve_union(v[2][k]))])
    ELSE Ok(<<[valid |-> FALSE, record |-> null_struct_array]>>)

NumericTypes ==
    {DT("Int8"), DT("Int16"), DT("Int32"), DT("Int64"),
     DT("UInt8"), DT("UInt16"), DT("UInt32"), DT("UInt64"),
     DT("Float32"), DT("Float64")}

\* ArrayData::build of a struct: every child has the field's type and at
\* least `n` slots.
validate_struct(fields, n, children) ==
    IF \E k \in DOMAIN fields : children[k].data_type # fields[k].data_type
    THEN Err("Child type mismatch for Struct")
    ELSE IF \E k \in DOMAIN fields : children[k].len < n
    THEN Err("Struct child array has fewer slots than the struct")
    ELSE Ok(TRUE)

\* ArrayData::build of a list: the child has the element field's type and
\* the last offset lies within it.
validate_list(list_field, offsets, child) ==
    IF child.data_type # list_field.data_type
    THEN Err("Child type mismatch for List")
    ELSE IF offsets[Len(offsets)] > child.len
    THEN Err("Last offset of List is larger than values length")
    ELSE Ok(TRUE)

\* Result::unwrap
Unwrap(r, v) ==
    IF r.st = "Ok" THEN v ELSE Panic("called Result::unwrap() on an Err value")

RECURSIVE build_nested_list_array(_, _, _, _)
RECURSIVE build_struct_array(_, _, _)

\* The struct element array over the flattened items, its children built.
list_struct_data(fields, items, children) ==
    Unwrap(validate_struct(fields, Len(items), children),
           Ok(StructArray(fields, Len(items),
                          [k \in DOMAIN items |-> items[k].valid], children)))

\* The Struct arm after the flat_map: the children over the flattened records.
list_struct_items(parent_field_name, list_field, items) ==
    AndThen(build_struct_array([k \in DOMAIN items |-> items[k].record],
                               parent_field_name \o "." \o list_field.name,
                               list_field.data_type[2]),
            LAMBDA children :
                list_struct_data(list_field.data_type[2], items, children))

\* The Struct arm of build_nested_list_array: the element array data.
list_struct_values(parent_field_name, rows, list_field) ==
    AndThen(Collect([i \in DOMAIN rows |->
                list_struct_row(maybe_resolve_union(rows[i]))]),
            LAMBDA per_row :
                list_struct_items(parent_field_name, list_field, Concat(per_row)))

\* `array_data`: the element array of the list, by element type dt.
list_array_data(parent_field_name, rows, list_field, dt, valid_len) ==
    CASE dt[1] = "Null" -> Ok(NullArray(valid_len))
      [] dt[1] = "Boolean" -> Ok(list_boolean_values(rows, valid_len))
      [] dt \in NumericTypes -> read_primitive_list_values(dt, rows)
      [] dt[1] = "Float16" -> Err("Float16 not supported")
      [] dt[1] \in {"Timestamp", "Date32", "Date64", "Time32", "Time64"} ->
            Err("Temporal types are not yet supported, see ARROW-4803")
      [] dt[1] \in {"Utf8", "LargeUtf8"} ->
            Ok(ValuesArray(dt, flatten_string_values(rows)))
      [] dt[1] = "List" ->
            build_nested_list_array("i32", parent_field_name,
                                    flatten_values(rows), dt[2])
      [] dt[1] = "LargeList" ->
            build_nested_list_array("i64", parent_field_name,
                                    flatten_values(rows), dt[2])
      [] dt[1] = "Struct" -> list_struct_values(parent_field_name, rows, list_field)
      [] OTHER -> ErrOf("Nested list not supported", dt)

\* `build list`: the list data always has the type List(list_field), which
\* GenericListArray::<i64>::from refuses.
list_data(OffsetSize, rows, list_field, offsets, child) ==
    Unwrap(validate_list(list_field, offsets, child),
           IF OffsetSize # "i32"
           THEN Panic("Expected infallible creation of GenericListArray")
           ELSE Ok(ListArray(list_field, Len(rows), offsets, list_nulls(rows),
                             child)))

\* The builder once the offsets are known.
nested_list_with_offsets(OffsetSize, parent_field_name, rows, list_field, offsets) ==
    AndThen(list_array_data(parent_field_name, rows, list_field,
                            list_field.data_type, offsets[Len(offsets)]),
            LAMBDA child : list_data(OffsetSize, rows, list_field, offsets, child))

\* Ok(list array), Err, or a panic.
build_nested_list_array(OffsetSize, parent_field_name, rows, list_field) ==
    nested_list_with_offsets(OffsetSize, parent_field_name, rows, list_field,
                             list_offsets(rows))

\* ------------------------------------------------------------ column builder
field_path(parent_field_name, field) ==
    IF parent_field_name = "" THEN field.name
    ELSE parent_field_name \o "." \o field.name

\* The item of one row in the Utf8 arm.
string_item(l) == IF l = None THEN Ok(None) ELSE resolve_string(l[1])

\* The Utf8 | LargeUtf8 arm: always a StringArray.
build_string_array(rows, path) ==
    AndThen(Collect([i \in DOMAIN rows |-> string_item(field_lookup(path, rows[i]))]),
            LAMBDA vals : Ok(ValuesArray(DT("Utf8"), vals)))

\* The Binary | LargeBinary arm: always a BinaryArray.
build_binary_array(rows, path) ==
    Ok(ValuesArray(DT("Binary"),
        [i \in DOMAIN rows |->
            lookup_and_then(field_lookup(path, rows[i]), resolve_bytes)]))

\* FixedSizeBinaryArray::try_from_sparse_iter_with_size: every present item
\* has `size` bytes.
fixed_size_binary_array(items, size) ==
    IF \E i \in DOMAIN items : items[i] # None /\ Len(items[i][1]) # size
    THEN Err("Nested array size mismatch")
    ELSE Ok(ValuesArray(FixedSizeBinary(size), items))

build_fixed_array(rows, path, size) ==
    fixed_size_binary_array(
        [i \in DOMAIN rows |->
            lookup_and_then(field_lookup(path, rows[i]),
                            LAMBDA v : resolve_fixed(v, size))],
        size)

\* One row of the Struct arm, from the looked-up value after the union unwrap.
struct_row(v) ==
    IF v = None THEN Ok([valid |-> FALSE, record |-> <<>>])
    ELSE IF v[1][1] = "Record" THEN Ok([valid |-> TRUE, record |-> v[1][2]])
    ELSE IF v[1][1] = "Null" THEN Ok([valid |-> FALSE, record |-> <<>>])
    ELSE Panic("expected struct got")

\* The struct's data once its children are built; `build()?` hands an error up.
struct_data(fields, items, children) ==
    AndThen(validate_struct(fields, Len(items), children),
            LAMBDA ok : Ok(StructArray(fields, Len(items),
                           [i \in DOMAIN items |-> items[i].valid], children)))

struct_column_items(path, fields, items) ==
    AndThen(build_struct_array([i \in DOMAIN items |-> items[i].record],
                               path, fields),
            LAMBDA children : struct_data(fields, items, children))

\* The Struct arm: the sub-record of each row, the validity bits, the children.
build_struct_column(rows, path, fields) ==
    AndThen(Collect([i \in DOMAIN rows |->
                struct_row(lookup_and_then(field_lookup(path, rows[i]),
                               LAMBDA v : Some(maybe_resolve_union(v))))]),
            LAMBDA items : struct_column_items(path, fields, items))

\* `extracted_rows`: field_lookup(..).unwrap_or(&AvroValue::Null)
unwrap_or_null(l) == IF l = None THEN AvroNull ELSE l[1]

\* The List arm.
build_list_column(rows, path, list_field) ==
    IF list_field.data_type[1] = "Dictionary"
    THEN build_wrapped_list_array(rows, path, list_field.data_type[2])
    ELSE build_nested_list_array("i32", path,
             [i \in DOMAIN rows |-> unwrap_or_null(field_lookup(path, rows[i]))],
             list_field)

\* The match on field.data_type(): the array of the field at `path`.
build_array(rows, path, dt) ==
    CASE dt[1] = "Null" -> Ok(NullArray(Len(rows)))
      [] dt[1] = "Boolean" -> Ok(build_boolean_array(rows, path))
      [] dt \in NumericTypes \/ dt[1] \in {"Timestamp", "Date64", "Date32"} ->
            build_primitive_array(dt, rows, path)
      [] dt[1] = "Time64" /\ dt[2] \in {"Microsecond", "Nanosecond"} ->
            build_primitive_array(dt, rows, path)
      [] dt[1] = "Time64" /\ dt[2] \notin {"Microsecond", "Nanosecond"} ->
            ErrOf("TimeUnit not supported with Time64", dt)
      [] dt[1] = "Time32" /\ dt[2] \in {"Second", "Millisecond"} ->
            build_primitive_array(dt, rows, path)
      [] dt[1] = "Time32" /\ dt[2] \notin {"Second", "Millisecond"} ->
            ErrOf("TimeUnit not supported with Time32", dt)
      [] dt[1] \in {"Utf8", "LargeUtf8"} -> build_string_array(rows, path)
      [] dt[1] \in {"Binary", "LargeBinary"} -> build_binary_array(rows, path)
      [] dt[1] = "FixedSizeBinary" -> build_fixed_array(rows, path, dt[2])
      [] dt[1] = "List" -> build_list_column(rows, path, dt[2])
      [] dt[1] = "Dictionary" ->
            build_string_dictionary_array(rows, path, dt[2], dt[3])
      [] dt[1] = "Struct" -> build_struct_column(rows, path, dt[2])
      [] OTHER -> ErrOf("type not supported", dt)

\* One item of the map in build_struct_array: the array of one field.
build_column(rows, parent_field_name, field) ==
    build_array(rows, field_path(parent_field_name, field), field.data_type)

\* The arrays of the fields in field order; the first field that fails ends it.
build_struct_array(rows, parent_field_name, struct_fields) ==
    Collect([k \in DOMAIN struct_fields |->
        build_column(rows, parent_field_name, struct_fields[k])])

\* ------------------------------------------------------------ batch assembler
\* RecordBatch::try_new as next_batch calls it: one column per field, the row
\* count is the first column's length, a non-nullable field holds no null,
\* every column has the row count and the field's type.
RecordBatch_try_new(fields, columns) ==
    IF Len(fields) # Len(columns)
    THEN Err("number of columns must match number of fields in schema")
    ELSE IF columns = <<>>
    THEN Err("must either specify a row count or at least one column")
    ELSE IF \E k \in DOMAIN fields :
                ~fields[k].nullable /\ null_count(columns[k]) > 0
    THEN Err("Column is declared as non-nullable but contains null values")
    ELSE IF \E k \in DOMAIN columns : columns[k].len # columns[1].len
    THEN Err("all columns in a record batch must have the same length")
    ELSE IF \E k \in DOMAIN fields : columns[k].data_type # fields[k].data_type
    THEN Err("column types must match schema types")
    ELSE Ok([schema |-> fields, columns |-> columns, num_rows |-> columns[1].len])

\* `rows`: the field list of every buffered record, or the panic on the first
\* buffered value that is no record.
next_batch_rows(buf) ==
    Collect([i \in DOMAIN buf |->
        IF buf[i][2][1] = "Record" THEN Ok(buf[i][2][2])
        ELSE Panic("Row needs to be of type object")])

\* `arrays`: the columns build_struct_array gives for the buffered rows.
next_batch_arrays(buf, fields) ==
    AndThen(next_batch_rows(buf), LAMBDA rows : build_struct_array(rows, "", fields))

Reverse(s) == [k \in DOMAIN s |-> s[Len(s) + 1 - k]]

\* A next_batch that walks the Target Schema from its last field to its first.
next_batch_reversed(buf, fields) ==
    AndThen(next_batch_arrays(buf, Reverse(fields)),
            LAMBDA arr : RecordBatch_try_new(Reverse(fields), arr))

\* What next_batch returns inside its Some(..), or its panic.
next_batch(buf, fields) ==
    AndThen(next_batch_arrays(buf, fields),
            LAMBDA arr : RecordBatch_try_new(fields, arr))

\* ============================================================ the Schema Index
\* apache_avro::Schema: a tuple whose first element is the variant name.
\* A record holds its fields in order, each a <<name, schema>> pair.
SchemaRecord(fields) == <<"Record", fields>>

SchemaUnion(variants) == <<"Union", variants>>

SchemaArray(items) == <<"Array", items>>

SchemaOf(kind) == <<kind>>

\* BTreeMap::insert: the value of an existing key is replaced.
Insert(m, k, v) == [x \in DOMAIN m \cup {k} |-> IF x = k THEN v ELSE m[x]]

\* Positions counted from one instead of from zero.
RecordLookupFromOne(fields) ==
    [n \in {fields[i][1] : i \in DOMAIN fields} |->
        CHOOSE i \in DOMAIN fields : fields[i][1] = n]

\* RecordSchema.lookup: field name -> position in the record's field list.
RecordLookup(fields) ==
    [n \in {fields[i][1] : i \in DOMAIN fields} |->
        (CHOOSE i \in DOMAIN fields : fields[i][1] = n) - 1]

RECURSIVE InsertFields(_, _, _, _)
\* The for_each of the Record arm: parent.field -> position, for fields i on.
InsertFields(parent_field_name, fields, i, m) ==
    IF i > Len(fields) THEN m
    ELSE InsertFields(parent_field_name, fields, i + 1,
            Insert(m, parent_field_name \o "." \o fields[i][1],
                   RecordLookup(fields)[fields[i][1]]))

\* `has_nullable` without the test on the number of branches.
has_nullable(variants) == \E i \in DOMAIN variants : variants[i][1] = "Null"

\* `has_nullable && sub_schemas.len() == 2`
nullable_pair(variants) ==
    (\E i \in DOMAIN variants : variants[i][1] = "Null") /\ Len(variants) = 2

\* The union's branches other than null, in order.
NonNullVariants(variants) == SelectSeq(variants, LAMBDA sub : sub[1] # "Null")

RECURSIVE child_schema_lookup(_, _, _)
RECURSIVE ChildFieldsLookup(_, _, _, _)
\* The loop over the fields of the Record arm, from field i on.
ChildFieldsLookup(parent_field_name, fields, i, m) ==
    IF i > Len(fields) THEN m
    ELSE ChildFieldsLookup(parent_field_name, fields, i + 1,
            child_schema_lookup(parent_field_name \o "." \o fields[i][1],
                                fields[i][2], m))

\* The map after the call; the function has no failing path.
child_schema_lookup(parent_field_name, sch, m) ==
    CASE sch[1] = "Union" ->
            IF nullable_pair(sch[2]) /\ NonNullVariants(sch[2]) # <<>>
            THEN child_schema_lookup(parent_field_name,
                                     Head(NonNullVariants(sch[2])), m)
            ELSE m
      [] sch[1] = "Record" ->
            ChildFieldsLookup(parent_field_name, sch[2], 1,
                InsertFields(parent_field_name, sch[2], 1, m))
      [] sch[1] = "Array" ->
            child_schema_lookup(parent_field_name \o ".element", sch[2], m)
      [] OTHER -> m

RECURSIVE TopFieldsLookup(_, _, _)
\* The loop of schema_lookup over the top record's fields, from field i on.
TopFieldsLookup(fields, i, m) ==
    IF i > Len(fields) THEN m
    ELSE TopFieldsLookup(fields, i + 1,
            child_schema_lookup(fields[i][1], fields[i][2], m))

schema_lookup(sch) ==
    IF sch[1] = "Record"
    THEN Ok(TopFieldsLookup(sch[2], 1, RecordLookup(sch[2])))
    ELSE Err("expected avro schema to be a record")

\* ====================================================== the WatermarkGenerator
\* Times are whole numbers counted from the epoch; a Duration is a number too.
UNIX_EPOCH == 0

\* WatermarkGenerator::expression: the generator as constructed at time t.
expression(interval, idle_time, t) ==
    [interval |-> interval,
     state_cache |-> [last_watermark_emitted_at |-> UNIX_EPOCH,
                      max_watermark |-> UNIX_EPOCH],
     idle_time |-> idle_time,
     last_event |-> t,
     idle |-> FALSE]

EventTime(t) == <<"EventTime", t>>

Idle == <<"Idle">>

MaxOf(ns) == CHOOSE n \in {ns[i] : i \in DOMAIN ns} : \A i \in DOMAIN ns : ns[i] <= n

MinOf(ns) == CHOOSE n \in {ns[i] : i \in DOMAIN ns} : \A i \in DOMAIN ns : n <= ns[i]

\* kernels::aggregate::max over the timestamp column of the batch; a row of a
\* batch is <<timestamp, value of the watermark expression>>.
max_timestamp(record) ==
    IF record = <<>> THEN None ELSE Some(MaxOf([i \in DOMAIN record |-> record[i][1]]))

\* The least value of the watermark expression over the batch.
min_watermark(record) == MinOf([i \in DOMAIN record |-> record[i][2]])

\* a.duration_since(b).unwrap_or(Duration::ZERO)
duration_since(a, b) == IF a >= b THEN a - b ELSE 0

\* A test that takes a gap of exactly `interval` as enough.
must_emit_at_interval(self, max_ts) ==
    \/ self.idle
    \/ duration_since(max_ts, self.state_cache.last_watermark_emitted_at)
            >= self.interval

\* The test that decides whether process_batch broadcasts.
must_emit(self, max_ts) ==
    \/ self.idle
    \/ duration_since(max_ts, self.state_cache.last_watermark_emitted_at)
            > self.interval

\* process_batch from the max_watermark update on: the generator after the
\* call and the watermarks it broadcast.
process_batch_emit(self, max_ts, watermark) ==
    IF must_emit(self, max_ts)
    THEN [self |-> [self EXCEPT !.state_cache.last_watermark_emitted_at = max_ts,
                                !.idle = FALSE],
          sent |-> <<EventTime(watermark)>>]
    ELSE [self |-> self, sent |-> <<>>]

Max(a, b) == IF a >= b THEN a ELSE b

\* process_batch called at time t.
process_batch(self, record, t) ==
    IF max_timestamp(record) = None
    THEN [self |-> [self EXCEPT !.last_event = t], sent |-> <<>>]
    ELSE process_batch_emit(
            [self EXCEPT !.last_event = t,
                         !.state_cache.max_watermark =
                            Max(@, min_watermark(record))],
            max_timestamp(record)[1], min_watermark(record))

\* A tick that does not look at the idle flag.
handle_tick_every_time(self, t) ==
    IF /\ self.idle_time # None
       /\ duration_since(t, self.last_event) > self.idle_time[1]
    THEN [self |-> [self EXCEPT !.idle = TRUE], sent |-> <<Idle>>]
    ELSE [self |-> self, sent |-> <<>>]

\* handle_tick called at time t; elapsed() of a later last_event is zero.
handle_tick(self, t) ==
    IF /\ self.idle_time # None
       /\ duration_since(t, self.last_event) > self.idle_time[1]
       /\ ~self.idle
    THEN [self |-> [self EXCEPT !.idle = TRUE], sent |-> <<Idle>>]
    ELSE [self |-> self, sent |-> <<>>]

\* A lookup under the task index of the neighbouring subtask.
table_get_neighbour(gs, index) ==
    IF 1 - index \in DOMAIN gs THEN Some(gs[1 - index]) ELSE None

\* gs.get(&task_index): the stored state of a task index, if any.
table_get(gs, index) == IF index \in DOMAIN gs THEN Some(gs[index]) ELSE None

\* The time on_close broadcasts when the data has ended: u64::MAX nanoseconds.
FAR_FUTURE == 2147483647

\* on_close: what it broadcasts for a final message.
on_close(final_message) ==
    IF final_message = Some("EndOfData") THEN <<EventTime(FAR_FUTURE)>> ELSE <<>>

\* on_start called at time t with the table gs.
on_start(self, gs, index, t) ==
    [self EXCEPT !.last_event = t,
                 !.state_cache =
                    IF table_get(gs, index) = None
                    THEN [last_watermark_emitted_at |-> UNIX_EPOCH,
                          max_watermark |-> UNIX_EPOCH]
                    ELSE table_get(gs, index)[1]]

\* handle_checkpoint: gs.insert(task_index, state_cache).
handle_checkpoint(self, gs, index) ==
    [i \in DOMAIN gs \cup {index} |-> IF i = index THEN self.state_cache ELSE gs[i]]

\* ================================================================ the decoder
VARIABLES
    schema,     \* AvroDecoder.schema: the Target Schema, fixed at construction
    buffer,     \* AvroDecoder.buffer: (writer schema id, value) pairs
    lastOp,     \* the call that ran last: "new", "append_value", "next_batch"
    arrays,     \* the arrays of the last next_batch call (None before the first)
    result,     \* what the last next_batch call returned (None before the first)
    listField,  \* build_nested_list_array: the element field
    listRows,   \* build_nested_list_array: the row values
    listOut,    \* build_nested_list_array: its return value (None before the call)
    writerSchema,   \* schema_lookup: the writer schema it is called with
    schemaIndex,    \* schema_lookup: its return value (None before the call)
    resolverValue,  \* the value a resolver is called with
    resolverOut,    \* the resolver called last and what it returned
    generator,      \* the WatermarkGenerator: interval, state_cache, idle_time,
                    \* last_event, idle
    now,            \* SystemTime::now()
    table,          \* the global keyed state "s": task index -> stored state
    task_index,     \* ctx.task_info.task_index
    phase,          \* "new" once constructed, "running" after on_start,
                    \* "closed" after on_close
    sent,           \* the watermarks the collector has broadcast, in order
    call            \* the handler called last and the batch it was given

vars ==
    <<schema, buffer, lastOp, arrays, result, listField, listRows, listOut,
      writerSchema, schemaIndex, resolverValue, resolverOut,
      generator, now, table, task_index, phase, sent, call>>

decoderVars == <<schema, buffer, lastOp, arrays, result>>

listVars == <<listField, listRows, listOut>>

indexVars == <<writerSchema, schemaIndex>>

resolverVars == <<resolverValue, resolverOut>>

watermarkVars == <<generator, now, table, task_index, phase, sent, call>>

pureVars == <<indexVars, resolverVars, watermarkVars>>

\* ------------------------------------------------------------------- bounds
MaxRows == 3

MaxListRows == 2

\* ------------------------------------------------------------ input domains
Int32Field(name) == Field(name, DT("Int32"), TRUE)

DictField == Field("item", Dictionary(DT("Int8"), DT("Utf8")), TRUE)

\* The Target Schemas a decoder is constructed with.
TargetSchemas ==
    { <<Int32Field("a")>>,
      <<Int32Field("a"), Field("s", DT("Utf8"), TRUE)>>,
      <<Field("b", DT("Boolean"), TRUE),
        Field("tags", List(Field("item", DT("Utf8"), TRUE)), TRUE)>>,
      <<Field("d", List(DictField), TRUE)>>,
      <<Int32Field("a"), Field("d", List(DictField), TRUE)>>,
      <<Field("s", Struct(<<Int32Field("x")>>), TRUE)>>,
      <<Field("s", Struct(<<Int32Field("x"), Field("d", List(DictField), TRUE)>>),
              TRUE)>>,
      <<Int32Field("a"), Field("t", Time64("Second"), TRUE),
        Field("u", Time32("Nanosecond"), TRUE)>>,
      <<Field("ls", List(Field("item", Struct(<<Int32Field("x")>>), TRUE)), TRUE)>>,
      <<Field("ls", List(Field("item",
              Struct(<<Field("d", List(DictField), TRUE)>>), TRUE)), TRUE)>>,
      <<Field("l", DT("LargeUtf8"), TRUE)>>,
      <<Field("n", DT("Int32"), FALSE)>>,
      <<Field("ts", Timestamp("Millisecond"), TRUE),
        Field("dd", Dictionary(DT("Int8"), DT("Utf8")), TRUE),
        Field("fx", FixedSizeBinary(2), TRUE),
        Field("bin", DT("Binary"), TRUE)>>,
      <<Field("ll", List(Field("item",
              List(Field("item", DT("Int32"), TRUE)), TRUE)), TRUE)>> }

\* The values append_value is called with.
BufferValues ==
    { AvroRecord(<<>>),
      AvroRecord(<<<<"a", AvroInt(5)>>>>),
      AvroRecord(<<<<"a", AvroNull>>>>),
      AvroRecord(<<<<"s", AvroString("x")>>, <<"a", AvroInt(7)>>>>),
      AvroRecord(<<<<"s", AvroRecord(<<<<"x", AvroInt(1)>>>>)>>>>),
      AvroRecord(<<<<"s", AvroBoolean(TRUE)>>>>),
      AvroInt(1) }

\* The element fields build_nested_list_array is called with.
ListFields ==
    { Field("item", DT("Boolean"), TRUE),
      Field("item", DT("Int8"), TRUE),
      Field("item", DT("Utf8"), TRUE),
      Field("item", Struct(<<Int32Field("x")>>), TRUE),
      Field("item", List(Field("item", DT("Int32"), TRUE)), TRUE) }

\* The row values build_nested_list_array is called with.
ListRowValues ==
    { AvroNull,
      AvroBoolean(TRUE),
      AvroArray(<<AvroBoolean(TRUE)>>),
      AvroInt(5),
      AvroArray(<<AvroInt(1), AvroInt(2)>>),
      AvroString("z"),
      AvroArray(<<AvroString("x"), AvroString("y")>>),
      AvroRecord(<<<<"x", AvroInt(1)>>>>),
      AvroUnion(AvroArray(<<AvroInt(3)>>)),
      AvroArray(<<AvroArray(<<AvroInt(4)>>)>>) }

\* ------------------------------------------------------------------ actions
\* A panic aborts the process: no call follows it.
Alive == IF result = None THEN TRUE ELSE result[1].st # "Panic"

DecoderInit ==
    /\ schema \in TargetSchemas
    /\ buffer = <<>>
    /\ lastOp = "new"
    /\ arrays = None
    /\ result = None

ListIdle ==
    /\ listField = Field("item", DT("Null"), TRUE)
    /\ listRows = <<>>
    /\ listOut = None

IndexIdle ==
    /\ writerSchema = <<"Null">>
    /\ schemaIndex = None

ResolverIdle ==
    /\ resolverValue = AvroNull
    /\ resolverOut = None

WatermarkIdle ==
    /\ generator = expression(0, None, 0)
    /\ now = 0
    /\ table = [i \in {} |-> None]
    /\ task_index = 0
    /\ phase = "new"
    /\ sent = <<>>
    /\ call = None

PureIdle == IndexIdle /\ ResolverIdle /\ WatermarkIdle

Init == DecoderInit /\ ListIdle /\ PureIdle

append_value(value) ==
    /\ Alive
    /\ Len(buffer) < MaxRows
    /\ buffer' = Append(buffer, value)
    /\ lastOp' = "append_value"
    /\ UNCHANGED <<schema, arrays, result, listVars, pureVars>>

\* next_batch reads the buffer and leaves it as it is.
NextBatch ==
    /\ Alive
    /\ arrays' = Some(next_batch_arrays(buffer, schema))
    /\ result' = Some(next_batch(buffer, schema))
    /\ lastOp' = "next_batch"
    /\ UNCHANGED <<schema, buffer, listVars, pureVars>>

AppendValue == \E v \in BufferValues : append_value(<<0, v>>)

Next == AppendValue \/ NextBatch

Spec == Init /\ [][Next]_vars

\* ---------------------------------------- build_nested_list_array, on its own
DecoderIdle ==
    /\ schema = <<>>
    /\ buffer = <<>>
    /\ lastOp = "new"
    /\ arrays = None
    /\ result = None

ListInit ==
    /\ DecoderIdle
    /\ PureIdle
    /\ listField \in ListFields
    /\ listRows = <<>>
    /\ listOut = None

\* One more row value for the call.
ListRow ==
    /\ listOut = None
    /\ Len(listRows) < MaxListRows
    /\ \E v \in ListRowValues : listRows' = Append(listRows, v)
    /\ UNCHANGED <<listField, listOut, decoderVars, pureVars>>

\* The call build_nested_list_array::<i32>(parent, rows, list_field).
ListBuild ==
    /\ listOut = None
    /\ listOut' = Some(build_nested_list_array("i32", "col", listRows, listField))
    /\ UNCHANGED <<listField, listRows, decoderVars, pureVars>>

ListNext == ListRow \/ ListBuild

SpecList == ListInit /\ [][ListNext]_vars

\* ------------------------------------- a dictionary column fed distinct strings
MaxDictRows == 129

DictSchema == <<Field("d", Dictionary(DT("Int8"), DT("Utf8")), TRUE)>>

\* The k-th of a run of pairwise distinct strings.
DistinctString(k) == ToString(k)

DictInit ==
    /\ schema = DictSchema
    /\ buffer = <<>>
    /\ lastOp = "new"
    /\ arrays = None
    /\ result = None
    /\ ListIdle
    /\ PureIdle

\* append_value with a record whose field d holds a string no earlier row holds.
append_distinct ==
    /\ Alive
    /\ Len(buffer) < MaxDictRows
    /\ buffer' = Append(buffer,
            <<0, AvroRecord(<<<<"d", AvroString(DistinctString(Len(buffer)))>>>>)>>)
    /\ lastOp' = "append_value"
    /\ UNCHANGED <<schema, arrays, result, listVars, pureVars>>

DictNext == append_distinct \/ NextBatch

SpecDict == DictInit /\ [][DictNext]_vars

\* ------------------------------------------------------ schema_lookup, on its own
IntSchema == SchemaOf("Int")

RecordZ == SchemaRecord(<<<<"z", IntSchema>>>>)

\* The types of field b of record a, and of the top-level field k.
FieldSchemas ==
    { IntSchema,
      SchemaUnion(<<SchemaOf("Null"), IntSchema>>),
      SchemaUnion(<<SchemaOf("Null"), RecordZ>>),
      SchemaUnion(<<RecordZ, SchemaOf("Null")>>),
      SchemaUnion(<<RecordZ, SchemaOf("String"), IntSchema>>),
      SchemaUnion(<<RecordZ, SchemaOf("String")>>),
      SchemaUnion(<<SchemaOf("Null"), RecordZ, SchemaOf("String")>>),
      SchemaUnion(<<SchemaOf("Null"), SchemaArray(RecordZ)>>),
      SchemaArray(RecordZ),
      SchemaArray(SchemaArray(RecordZ)),
      RecordZ,
      SchemaRecord(<<<<"element", IntSchema>>, <<"z", RecordZ>>>>) }

\* The writer schemas schema_lookup is called with.
WriterSchemas ==
    { SchemaRecord(<<<<"k", tk>>,
                     <<"a", SchemaRecord(<<<<"x", IntSchema>>, <<"b", tb>>>>)>>>>) :
        tk \in FieldSchemas, tb \in FieldSchemas }
    \cup {IntSchema, SchemaArray(RecordZ)}

IndexInit ==
    /\ DecoderIdle
    /\ ListIdle
    /\ ResolverIdle
    /\ WatermarkIdle
    /\ writerSchema \in WriterSchemas
    /\ schemaIndex = None

\* The call schema_lookup(schema).
SchemaLookup ==
    /\ schemaIndex = None
    /\ schemaIndex' = Some(schema_lookup(writerSchema))
    /\ UNCHANGED <<writerSchema, decoderVars, listVars, resolverVars, watermarkVars>>

IndexNext == SchemaLookup

SpecIndex == IndexInit /\ [][IndexNext]_vars

\* ---------------------------------------------------- the resolvers, on their own
IntegerTargets ==
    {DT("Int8"), DT("Int16"), DT("Int32"), DT("Int64"),
     DT("UInt8"), DT("UInt16"), DT("UInt32"), DT("UInt64")}

\* Integers and longs around the limits of the integer kinds; 2^31, 2^32 - 1,
\* 2^32 + 5, -2^31 - 1 and -2^32 among the longs.
ResolverNumbers ==
    {AvroInt(n) : n \in {-32769, -32768, -129, -128, -1, 0, 5, 127, 128, 255, 256,
                         32767, 32768, 65535, 65536}}
    \cup {AvroLong(hi, lo) : hi \in {-1, 0}, lo \in {0, 5, 255, 256, 65408, 65535}}
    \cup {AvroLong(32768, 0), AvroLong(65535, 65535), AvroLong(65536, 5),
          AvroLong(-32769, 65535), AvroLong(-65536, 0)}

\* The values the resolvers are called with.
ResolverValues ==
    ResolverNumbers
    \cup {AvroUnion(AvroInt(300)), AvroUnion(AvroLong(65536, 5)), AvroNull,
          AvroString("x"), AvroBytes(<<120, 121>>), AvroBoolean(TRUE),
          AvroArray(<<>>),
          AvroArray(<<AvroInt(1), AvroLong(0, 255)>>),
          AvroArray(<<AvroInt(1), AvroInt(256)>>),
          AvroArray(<<AvroInt(-1)>>),
          AvroArray(<<AvroLong(65536, 5)>>),
          AvroArray(<<AvroLong(0, 7), AvroLong(-65536, 9)>>),
          AvroArray(<<AvroString("x")>>),
          AvroUnion(AvroArray(<<AvroInt(2), AvroInt(3)>>))}

ResolverInit ==
    /\ DecoderIdle
    /\ ListIdle
    /\ IndexIdle
    /\ WatermarkIdle
    /\ resolverValue \in ResolverValues
    /\ resolverOut = None

\* The call T::resolve(value) for an integer kind T.
ResolveNumeric ==
    /\ resolverOut = None
    /\ \E T \in IntegerTargets :
            resolverOut' = Some([fn |-> "resolve", T |-> T,
                                 out |-> resolve(T, resolverValue)])
    /\ UNCHANGED <<resolverValue, decoderVars, listVars, indexVars, watermarkVars>>

\* The call resolve_bytes(value).
ResolveBytes ==
    /\ resolverOut = None
    /\ resolverOut' = Some([fn |-> "resolve_bytes", T |-> DT("Binary"),
                             out |-> resolve_bytes(resolverValue)])
    /\ UNCHANGED <<resolverValue, decoderVars, listVars, indexVars, watermarkVars>>

\* The call resolve_boolean(value).
ResolveBoolean ==
    /\ resolverOut = None
    /\ resolverOut' = Some([fn |-> "resolve_boolean", T |-> DT("Boolean"),
                             out |-> resolve_boolean(resolverValue)])
    /\ UNCHANGED <<resolverValue, decoderVars, listVars, indexVars, watermarkVars>>

ResolverNext == ResolveNumeric \/ ResolveBytes \/ ResolveBoolean

SpecResolver == ResolverInit /\ [][ResolverNext]_vars

\* ------------------------------------------------ the watermark operator runs
\* A generator is constructed, started, fed batches and ticks, checkpointed
\* and closed; a restart constructs a new generator over the same table.
MaxTime == 1

MaxClock == 2

MaxSent == 3

MaxBatch == 2

\* Event times: the timestamps of rows and the values of the expression.
Times == 0..MaxTime

Intervals == {0, 1}

IdleTimes == {None, Some(0)}

TaskIndexes == {0, 1}

\* A row is <<timestamp, value of the watermark expression>>.
BatchRows == Times \X Times

Batches == UNION {[1..n -> BatchRows] : n \in 0..MaxBatch}

FinalMessages == {None, Some("EndOfData"), Some("Stop")}

\* A generator just constructed, over an empty table.
WatermarkInit ==
    /\ DecoderIdle
    /\ ListIdle
    /\ IndexIdle
    /\ ResolverIdle
    /\ \E interval \in Intervals, idle_time \in IdleTimes :
            generator = expression(interval, idle_time, 0)
    /\ now = 0
    /\ table = [i \in {} |-> None]
    /\ task_index \in TaskIndexes
    /\ phase = "new"
    /\ sent = <<>>
    /\ call = None

\* The worker builds the operator again at a restart, from the same
\* configuration and for any subtask.
Construct ==
    /\ \E t \in now..MaxClock, index \in TaskIndexes :
            /\ now' = t
            /\ generator' = expression(generator.interval, generator.idle_time, t)
            /\ task_index' = index
    /\ phase' = "new"
    /\ sent' = <<>>
    /\ call' = Some([fn |-> "expression"])
    /\ UNCHANGED <<table, decoderVars, listVars, indexVars, resolverVars>>

OnStart ==
    /\ phase = "new"
    /\ \E t \in now..MaxClock :
            /\ now' = t
            /\ generator' = on_start(generator, table, task_index, t)
    /\ phase' = "running"
    /\ call' = Some([fn |-> "on_start"])
    /\ UNCHANGED <<table, task_index, sent,
                   decoderVars, listVars, indexVars, resolverVars>>

ProcessBatch ==
    /\ phase = "running"
    /\ Len(sent) < MaxSent
    /\ \E record \in Batches, t \in now..MaxClock :
            /\ now' = t
            /\ generator' = process_batch(generator, record, t).self
            /\ sent' = sent \o process_batch(generator, record, t).sent
            /\ call' = Some([fn |-> "process_batch",
                             max_timestamp |-> max_timestamp(record)])
    /\ UNCHANGED <<table, task_index, phase,
                   decoderVars, listVars, indexVars, resolverVars>>

HandleTick ==
    /\ phase = "running"
    /\ Len(sent) < MaxSent
    /\ \E t \in now..MaxClock :
            /\ now' = t
            /\ generator' = handle_tick(generator, t).self
            /\ sent' = sent \o handle_tick(generator, t).sent
    /\ call' = Some([fn |-> "handle_tick"])
    /\ UNCHANGED <<table, task_index, phase,
                   decoderVars, listVars, indexVars, resolverVars>>

HandleCheckpoint ==
    /\ phase = "running"
    /\ table' = handle_checkpoint(generator, table, task_index)
    /\ call' = Some([fn |-> "handle_checkpoint"])
    /\ UNCHANGED <<generator, now, task_index, phase, sent,
                   decoderVars, listVars, indexVars, resolverVars>>

OnClose ==
    /\ phase = "running"
    /\ Len(sent) < MaxSent
    /\ \E final_message \in FinalMessages :
            /\ sent' = sent \o on_close(final_message)
            /\ call' = Some([fn |-> "on_close", final_message |-> final_message])
    /\ phase' = "closed"
    /\ UNCHANGED <<generator, now, table, task_index,
                   decoderVars, listVars, indexVars, resolverVars>>

WatermarkNext ==
    \/ OnStart
    \/ ProcessBatch
    \/ HandleTick
    \/ OnClose

SpecWatermark == WatermarkInit /\ [][WatermarkNext]_vars

\* Runs with checkpoints and restarts.
CheckpointNext ==
    \/ Construct
    \/ OnStart
    \/ ProcessBatch
    \/ HandleCheckpoint

SpecCheckpoint == WatermarkInit /\ [][CheckpointNext]_vars

\* ===================================================================== claims
ReturnedBatch == lastOp = "next_batch" /\ result[1].st = "Ok"

\* Every buffered value is a record.
AllRecords == \A i \in DOMAIN buffer : buffer[i][2][1] = "Record"

\* The value a record holds under a field name, if any.
RecordGet(row, name) ==
    IF \E i \in DOMAIN row : row[i][1] = name
    THEN Some(row[CHOOSE i \in DOMAIN row : row[i][1] = name][2])
    ELSE None

ScalarTypes ==
    NumericTypes \cup
    {DT("Boolean"), DT("Date32"), DT("Date64"),
     Timestamp("Second"), Timestamp("Millisecond"), Timestamp("Microsecond"),
     Timestamp("Nanosecond"), Time32("Second"), Time32("Millisecond"),
     Time64("Microsecond"), Time64("Nanosecond")}

RECURSIVE SupportedType(_)
\* The declared types the column builder has an arm for: scalar, string and
\* binary, fixed-size binary, dictionary string, list, struct.
SupportedType(dt) ==
    \/ dt \in ScalarTypes
    \/ dt[1] \in {"Utf8", "LargeUtf8", "Binary", "LargeBinary", "FixedSizeBinary"}
    \/ dt[1] = "Dictionary" /\ dt[2] \in DictionaryKeyTypes /\ dt[3] = DT("Utf8")
    \/ dt[1] = "List" /\
         \/ dt[2].data_type \in NumericTypes \cup {DT("Boolean"), DT("Utf8")}
         \/ dt[2].data_type[1] \in {"List", "Struct", "Dictionary"} /\
            SupportedType(dt[2].data_type)
    \/ dt[1] = "Struct" /\ \A k \in DOMAIN dt[2] : SupportedType(dt[2][k].data_type)

SupportedSchema == \A k \in DOMAIN schema : SupportedType(schema[k].data_type)

RECURSIVE AllLen(_, _)
\* The array and, for a struct, its children at every depth have n entries.
AllLen(a, n) ==
    /\ a.len = n
    /\ a.kind = "struct" => \A k \in DOMAIN a.children : AllLen(a.children[k], n)

\* C1: every column array built for a pass over N buffered records, top-level
\* or struct child, has exactly N entries.
C1_ColumnsHaveRowCount ==
    (lastOp = "next_batch" /\ SupportedSchema /\ arrays[1].st = "Ok") =>
        \A k \in DOMAIN arrays[1].val : AllLen(arrays[1].val[k], Len(buffer))

\* What the claim expects in row i of a boolean, numeric or temporal column.
ExpectedScalar(T, l) ==
    IF l = None THEN None
    ELSE IF T = DT("Boolean") THEN resolve_boolean(l[1])
    ELSE string_or_none(resolve(T, l[1]))

\* C2: row i of a boolean, numeric or temporal column holds the resolver's
\* value for the field found by name in input row i, null when it is missing
\* or null ({a: 5} gives 5 in column a).
C2_ScalarColumnHoldsRowValue ==
    (ReturnedBatch /\ AllRecords) =>
        \A k \in DOMAIN schema : schema[k].data_type \in ScalarTypes =>
            \A i \in DOMAIN buffer :
                result[1].val.columns[k].vals[i] =
                    ExpectedScalar(schema[k].data_type,
                                   RecordGet(buffer[i][2][2], schema[k].name))

\* The string arms build Utf8 and Binary arrays whatever the declared width.
LargeTypes == {"LargeUtf8", "LargeBinary"}

\* C3: with nullable fields of supported types, rows that lack a field never
\* make next_batch return an error
\* (columns declared LargeUtf8 or LargeBinary left aside).
C3_MissingFieldNeverErrors ==
    (/\ lastOp = "next_batch"
     /\ buffer # <<>>
     /\ AllRecords
     /\ SupportedSchema
     /\ \A k \in DOMAIN schema :
            schema[k].nullable /\ schema[k].data_type[1] \notin LargeTypes
     /\ \E i \in DOMAIN buffer : \E k \in DOMAIN schema :
            RecordGet(buffer[i][2][2], schema[k].name) = None) =>
        result[1].st # "Err"

\* C4: after next_batch returns a batch, the rows it decoded are no longer in
\* the Decode Buffer.
C4_PassClearsBuffer == ReturnedBatch => buffer = <<>>

\* C6: a buffered top-level value that is no record makes next_batch return
\* an error value; the pass does not panic.
C6_NonRecordRowIsAnError ==
    (lastOp = "next_batch" /\ ~AllRecords) => result[1].st = "Err"

\* The index of the first field whose column build does not succeed.
FirstFailing(rows) ==
    CHOOSE k \in DOMAIN schema :
        /\ build_column(rows, "", schema[k]).st # "Ok"
        /\ \A j \in 1..(k - 1) : build_column(rows, "", schema[j]).st = "Ok"

SameError(r, e) == r.st = "Err" /\ e.st = "Err" /\ r.val = e.val

\* What C7 says of a pass over the records `rows`.
AllOrNothing(rows) ==
    IF \E k \in DOMAIN schema : build_column(rows, "", schema[k]).st # "Ok"
    THEN SameError(result[1], build_column(rows, "", schema[FirstFailing(rows)]))
    ELSE result[1].st = "Ok" => Len(result[1].val.columns) = Len(schema)

\* C7: when the column of a field fails to build, next_batch returns the
\* error of the first failing field in Target Schema order and no batch; a
\* returned batch has a column for every field.
C7_AllOrNothing ==
    (lastOp = "next_batch" /\ AllRecords) =>
        AllOrNothing(next_batch_rows(buffer).val)

RECURSIVE InFieldOrder(_, _)
\* Column k has the type of field k, at every struct depth.
InFieldOrder(fields, columns) ==
    /\ Len(columns) = Len(fields)
    /\ \A k \in DOMAIN fields :
        /\ columns[k].data_type = fields[k].data_type
        /\ columns[k].kind = "struct" =>
                InFieldOrder(fields[k].data_type[2], columns[k].children)

\* C8: the columns of a returned batch are in Target Schema order: column k is
\* the array built for the k-th field, and so are the children of a struct.
C8_ColumnsInSchemaOrder ==
    ReturnedBatch =>
        /\ result[1].val.schema = schema
        /\ InFieldOrder(schema, result[1].val.columns)
        /\ \A k \in DOMAIN schema :
            Ok(result[1].val.columns[k]) =
                build_column(next_batch_rows(buffer).val, "", schema[k])

\* C8 witness: a batch of two columns of different types over a record whose
\* fields come in the other order.
C8_Witness ==
    /\ ReturnedBatch
    /\ Len(schema) = 2
    /\ schema[1].data_type # schema[2].data_type
    /\ result[1].val.num_rows > 0
    /\ \E i \in DOMAIN buffer :
        /\ Len(buffer[i][2][2]) = 2
        /\ buffer[i][2][2][1][1] = schema[2].name
        /\ buffer[i][2][2][2][1] = schema[1].name

\* C9: with an empty buffer and a Target Schema of supported types, next_batch
\* returns a zero-row batch with one column per field, never an error.
C9_EmptyBufferGivesEmptyBatch ==
    (lastOp = "next_batch" /\ buffer = <<>> /\ SupportedSchema) =>
        /\ result[1].st = "Ok"
        /\ result[1].val.num_rows = 0
        /\ Len(result[1].val.columns) = Len(schema)

\* A row value of the kind the element type dt takes: a scalar of that kind,
\* or an array of them, or null.
ScalarOf(v, dt) ==
    \/ dt = DT("Boolean") /\ v[1] = "Boolean"
    \/ dt \in NumericTypes /\ v[1] = "Int" /\ InRange(dt, v[2])
    \/ dt = DT("Utf8") /\ v[1] = "String"
    \/ dt[1] = "Struct" /\ v[1] = "Record"

RowOf(v, dt) ==
    \/ v[1] = "Null"
    \/ ScalarOf(v, dt)
    \/ v[1] = "Array" /\ \A k \in DOMAIN v[2] : ScalarOf(v[2][k], dt)

\* Slot p of the element array holds the scalar v.
HoldsScalar(child, p, v) ==
    IF child.kind = "struct" THEN child.valid[p]
    ELSE child.vals[p] = Some(v[2])

\* C10: in the nested list builder a row that is a non-null scalar gives a
\* present list of exactly one element, the scalar's resolved value.
C10_ScalarRowIsOneElementList ==
    (/\ listOut # None
     /\ \A i \in DOMAIN listRows : RowOf(listRows[i], listField.data_type)) =>
        \A i \in DOMAIN listRows :
            ScalarOf(listRows[i], listField.data_type) =>
                /\ listOut[1].st = "Ok"
                /\ listOut[1].val.valid[i]
                /\ listOut[1].val.offsets[i + 1] = listOut[1].val.offsets[i] + 1
                /\ HoldsScalar(listOut[1].val.child,
                               listOut[1].val.offsets[i + 1], listRows[i])

\* The looked-up value of a row after one union unwrap, if the row has the field.
Unwrapped(l) == IF l = None THEN None ELSE Some(maybe_resolve_union(l[1]))

HoldsRecord(l) == IF l = None THEN FALSE ELSE maybe_resolve_union(l[1])[1] = "Record"

\* Row i of a struct column as the claim describes it, for the input value l:
\* the bit is set exactly for a record, and a scalar child of a set row holds
\* the record's value for it while the child of an unset row is null.
StructRowAsClaimed(col, fields, i, l) ==
    /\ col.valid[i] = HoldsRecord(l)
    /\ \A c \in DOMAIN fields :
        /\ col.children[c].len = col.len
        /\ fields[c].data_type \in ScalarTypes =>
            col.children[c].vals[i] =
                IF HoldsRecord(l)
                THEN ExpectedScalar(fields[c].data_type,
                        RecordGet(Unwrapped(l)[1][2], fields[c].name))
                ELSE None

\* C11: in a struct column the validity bit of row i is set exactly when input
\* row i holds a record for the field; every child has one entry per row; a
\* set row keeps its child values and an unset row has null children.
C11_StructValidityFollowsRows ==
    (ReturnedBatch /\ AllRecords) =>
        \A k \in DOMAIN schema : schema[k].data_type[1] = "Struct" =>
            \A i \in DOMAIN buffer :
                StructRowAsClaimed(result[1].val.columns[k], schema[k].data_type[2],
                                   i, RecordGet(buffer[i][2][2], schema[k].name))

\* The strings the rows hold for a field.
FieldStrings(name) ==
    {RecordGet(buffer[i][2][2], name)[1][2] : i \in
        {j \in DOMAIN buffer :
            /\ RecordGet(buffer[j][2][2], name) # None
            /\ RecordGet(buffer[j][2][2], name)[1][1] = "String"}}

\* How many keys a dictionary key type can address.
KeyCapacity(K) ==
    CASE K = DT("Int8") -> 128
      [] K = DT("UInt8") -> 256
      [] K = DT("Int16") -> 32768
      [] K = DT("UInt16") -> 65536

NarrowKeys == {DT("Int8"), DT("UInt8"), DT("Int16"), DT("UInt16")}

IsDictionary(f) == f.data_type[1] = "Dictionary" /\ f.data_type[2] \in NarrowKeys

\* C12: when the rows hold more distinct strings for a dictionary column than
\* its key width can address, next_batch returns an error and no batch; and in
\* a returned batch two rows with distinct strings never share a key.
C12_DictionaryOverflowIsAnError ==
    (lastOp = "next_batch" /\ AllRecords) =>
        \A k \in DOMAIN schema : IsDictionary(schema[k]) =>
            /\ Cardinality(FieldStrings(schema[k].name)) >
                    KeyCapacity(schema[k].data_type[2]) => result[1].st = "Err"
            /\ result[1].st = "Ok" =>
                \A i, j \in DOMAIN buffer :
                    (/\ result[1].val.columns[k].keys[i] # None
                     /\ result[1].val.columns[k].keys[i] =
                            result[1].val.columns[k].keys[j]) =>
                        RecordGet(buffer[i][2][2], schema[k].name) =
                            RecordGet(buffer[j][2][2], schema[k].name)

\* The field names of the writer schemas, and the literal array segment.
Segments == {"a", "b", "k", "x", "z", "element"}

\* The paths up to three segments below a path.
Below(path) ==
    {path \o "." \o s1 : s1 \in Segments}
    \cup {path \o "." \o s1 \o "." \o s2 : s1 \in Segments, s2 \in Segments}
    \cup {path \o "." \o s1 \o "." \o s2 \o "." \o s3 :
            s1 \in Segments, s2 \in Segments, s3 \in Segments}

\* A union that is not a two-branch union with a null branch.
UnresolvedUnion(sch) ==
    /\ sch[1] = "Union"
    /\ ~(Len(sch[2]) = 2 /\ \E i \in DOMAIN sch[2] : sch[2][i][1] = "Null")

\* The schema of field b of the record under the top-level field a.
SchemaOfAB == writerSchema[2][2][2][2][2][2]

IndexBuilt == schemaIndex # None /\ writerSchema[1] = "Record"

\* C13 as stated: with an unresolved union at a.b the mapping has no entry for
\* a.b and none below it.
C13_NoEntryAtUnresolvedUnion ==
    (IndexBuilt /\ UnresolvedUnion(SchemaOfAB)) =>
        /\ schemaIndex[1].st = "Ok"
        /\ "a.b" \notin DOMAIN schemaIndex[1].val
        /\ Below("a.b") \cap DOMAIN schemaIndex[1].val = {}

\* C13 amended: with an unresolved union at a.b the mapping has no entry below
\* a.b, and the entry of a.b itself is the position of b in record a.
C13_NoEntryBelowUnresolvedUnion ==
    (IndexBuilt /\ UnresolvedUnion(SchemaOfAB)) =>
        /\ schemaIndex[1].st = "Ok"
        /\ "a.b" \in DOMAIN schemaIndex[1].val
        /\ schemaIndex[1].val["a.b"] = 1
        /\ Below("a.b") \cap DOMAIN schemaIndex[1].val = {}

\* C13 witness: the index of a schema whose a.b is a union of three non-null
\* branches, one of them a record.
C13_Witness ==
    /\ IndexBuilt
    /\ schemaIndex[1].st = "Ok"
    /\ SchemaOfAB[1] = "Union"
    /\ Len(SchemaOfAB[2]) = 3
    /\ \A i \in DOMAIN SchemaOfAB[2] : SchemaOfAB[2][i][1] # "Null"
    /\ \E i \in DOMAIN SchemaOfAB[2] : SchemaOfAB[2][i][1] = "Record"

RECURSIVE FieldsUnder(_, _)
\* The <<path, position>> pairs of the fields reachable from a schema found
\* at a path: through a record's fields, an array's elements, and the
\* non-null branch of a two-branch nullable union.
FieldsUnder(path, sch) ==
    CASE sch[1] = "Record" ->
            UNION {{<<path \o "." \o sch[2][i][1], i - 1>>}
                   \cup FieldsUnder(path \o "." \o sch[2][i][1], sch[2][i][2]) :
                   i \in DOMAIN sch[2]}
      [] sch[1] = "Array" -> FieldsUnder(path \o ".element", sch[2])
      [] sch[1] = "Union" /\ ~UnresolvedUnion(sch) ->
            UNION {FieldsUnder(path, sch[2][i]) : i \in DOMAIN sch[2]}
      [] OTHER -> {}

ReachableFields(sch) ==
    UNION {{<<sch[2][i][1], i - 1>>} \cup FieldsUnder(sch[2][i][1], sch[2][i][2]) :
           i \in DOMAIN sch[2]}

\* C16: schema_lookup on a record schema returns a mapping with an entry
\* path -> position in the owning record for every reachable field; records
\* extend the path with the field name, arrays with "element", two-branch
\* nullable unions pass through.
C16_IndexHoldsEveryReachableField ==
    IndexBuilt =>
        /\ schemaIndex[1].st = "Ok"
        /\ \A e \in ReachableFields(writerSchema) :
            /\ e[1] \in DOMAIN schemaIndex[1].val
            /\ schemaIndex[1].val[e[1]] = e[2]

\* C16 witness: an index with a field reached through a nullable union and an
\* array, and one reached through a nested record.
C16_Witness ==
    /\ IndexBuilt
    /\ schemaIndex[1].st = "Ok"
    /\ "k.element.z" \in DOMAIN schemaIndex[1].val
    /\ SchemaOfAB[1] = "Union"
    /\ "a.b.z" \in DOMAIN schemaIndex[1].val
    /\ schemaIndex[1].val["a.b"] = 1

\* The elements of a row: those of an array, none for null, the value itself
\* for a scalar (after one union unwrap).
RowElements(row) ==
    IF maybe_resolve_union(row)[1] = "Array" THEN maybe_resolve_union(row)[2]
    ELSE IF maybe_resolve_union(row)[1] = "Null" THEN <<>>
    ELSE <<maybe_resolve_union(row)>>

\* Every element of every row is of the kind the element type dt takes.
RowsOf(rows, dt) ==
    \A i \in DOMAIN rows : \A k \in DOMAIN RowElements(rows[i]) :
        \/ ScalarOf(RowElements(rows[i])[k], dt)
        \/ dt[1] = "List" /\ RowElements(rows[i])[k][1] = "Array"

\* The child slots of row i hold the row's elements, in order.
RowAligned(list, i, elems) ==
    /\ list.offsets[i + 1] - list.offsets[i] = Len(elems)
    /\ list.offsets[i + 1] <= list.child.len
    /\ list.child.kind = "values" =>
        \A k \in DOMAIN elems : list.child.vals[list.offsets[i] + k] = Some(elems[k][2])

\* C14: the element array of build_nested_list_array is aligned with the
\* offsets: its length is the last offset and the slots of row i hold the
\* elements of row i in order, whatever null or scalar rows precede it.
C14_ChildAlignedWithOffsets ==
    (listOut # None /\ RowsOf(listRows, listField.data_type)) =>
        /\ listOut[1].st = "Ok"
        /\ listOut[1].val.child.len = listOut[1].val.offsets[Len(listRows) + 1]
        /\ \A i \in DOMAIN listRows :
            RowAligned(listOut[1].val, i, RowElements(listRows[i]))

\* The offsets of N rows as the claim describes them.
OffsetsAsClaimed(offsets, rows) ==
    /\ Len(offsets) = Len(rows) + 1
    /\ offsets[1] = 0
    /\ \A i \in DOMAIN rows :
        /\ offsets[i + 1] >= offsets[i]
        /\ offsets[i + 1] - offsets[i] = Len(RowElements(rows[i]))

\* C15: the offset buffer of N rows has N+1 entries, starts at 0, never
\* decreases, and moves by the array length for an array row, 0 for a null
\* row and 1 for any other row (after one union unwrap).
C15_OffsetsFollowRows ==
    listOut # None =>
        /\ OffsetsAsClaimed(list_offsets(listRows), listRows)
        /\ listOut[1].st = "Ok" => listOut[1].val.offsets = list_offsets(listRows)

\* C15 witness: a returned list array over a union-wrapped array row and a
\* null row.
C15_Witness ==
    /\ listOut # None
    /\ listOut[1].st = "Ok"
    /\ Len(listRows) = 2
    /\ listRows[1][1] = "Union"
    /\ listRows[2][1] = "Null"
    /\ listOut[1].val.offsets = <<0, 1, 1>>

IsListOfDictionary(f) ==
    f.data_type[1] = "List" /\ f.data_type[2].data_type[1] = "Dictionary"

\* How many elements the list entry of a row holds, as the claim has it: the
\* array's length for an array, one for a scalar or a null.
ListEntryLen(l) ==
    IF l = None THEN 1
    ELSE IF maybe_resolve_union(l[1])[1] = "Array"
    THEN Len(maybe_resolve_union(l[1])[2])
    ELSE 1

\* C17: in a list column of dictionary-encoded strings every input row yields
\* exactly one list entry: the strings of an array, a one-element list for a
\* scalar, a one-element list holding a null for a null.
C17_ListOfDictionaryOneEntryPerRow ==
    (lastOp = "next_batch" /\ AllRecords /\ arrays[1].st = "Ok") =>
        \A k \in DOMAIN schema : IsListOfDictionary(schema[k]) =>
            /\ Len(arrays[1].val[k].offsets) = Len(buffer) + 1
            /\ \A i \in DOMAIN buffer :
                arrays[1].val[k].offsets[i + 1] - arrays[1].val[k].offsets[i] =
                    ListEntryLen(RecordGet(buffer[i][2][2], schema[k].name))

\* The limbs <<hi, lo>> of an integer or long source value.
SourceLimbs(v) ==
    IF v[1] = "Int" THEN <<v[2] \div 65536, v[2] % 65536>> ELSE <<v[2], v[3]>>

LimbLE(a, b) == a[1] < b[1] \/ (a[1] = b[1] /\ a[2] <= b[2])

\* The least and the greatest value of the integer kinds up to 32 bits, in limbs.
TargetMin(T) ==
    CASE T = DT("Int8") -> <<-1, 65408>>
      [] T = DT("Int16") -> <<-1, 32768>>
      [] T = DT("Int32") -> <<-32768, 0>>
      [] T \in {DT("UInt8"), DT("UInt16"), DT("UInt32")} -> <<0, 0>>

TargetMax(T) ==
    CASE T = DT("Int8") -> <<0, 127>>
      [] T = DT("Int16") -> <<0, 32767>>
      [] T = DT("Int32") -> <<32767, 65535>>
      [] T = DT("UInt8") -> <<0, 255>>
      [] T = DT("UInt16") -> <<0, 65535>>
      [] T = DT("UInt32") -> <<65535, 65535>>

\* The value lies in the range of the integer kind T; every i64 is an Int64.
InTargetRange(T, l) ==
    CASE T = DT("Int64") -> TRUE
      [] T = DT("UInt64") -> l[1] >= 0
      [] OTHER -> LimbLE(TargetMin(T), l) /\ LimbLE(l, TargetMax(T))

\* The number of limbs l as the arrays of the model hold it.
NativeOf(l) == IF Fits32(l[1]) THEN l[1] * 65536 + l[2] ELSE l

IsIntegerSource(v) == maybe_resolve_union(v)[1] \in {"Int", "Long"}

NumericCall == resolverOut # None /\ resolverOut[1].fn = "resolve"

\* C18: the numeric resolver, given an integer or long (after one union
\* unwrap) and an integer target kind, returns the same number when the kind
\* can hold it and absent when it cannot, never a wrapped or truncated one.
C18_NumericResolverChecksRange ==
    (NumericCall /\ IsIntegerSource(resolverValue)) =>
        resolverOut[1].out =
            IF InTargetRange(resolverOut[1].T,
                             SourceLimbs(maybe_resolve_union(resolverValue)))
            THEN Ok(Some(NativeOf(SourceLimbs(maybe_resolve_union(resolverValue)))))
            ELSE Ok(None)

\* C18 witness: the long 2^32 + 5 resolved for Int32 is absent.
C18_Witness ==
    /\ NumericCall
    /\ resolverValue = AvroLong(65536, 5)
    /\ resolverOut[1].T = DT("Int32")
    /\ resolverOut[1].out = Ok(None)

\* The element is an integer or long whose value is in 0..=255.
IsByte(v) ==
    /\ v[1] \in {"Int", "Long"}
    /\ LimbLE(<<0, 0>>, SourceLimbs(v))
    /\ LimbLE(SourceLimbs(v), <<0, 255>>)

\* C19: resolve_bytes of an array yields a byte sequence only when every
\* element is an integer or long in 0..=255, and then byte k is the value of
\* element k.
C19_BytesOnlyFromSmallIntegers ==
    (/\ resolverOut # None
     /\ resolverOut[1].fn = "resolve_bytes"
     /\ maybe_resolve_union(resolverValue)[1] = "Array"
     /\ resolverOut[1].out # None) =>
        \A k \in DOMAIN maybe_resolve_union(resolverValue)[2] :
            /\ IsByte(maybe_resolve_union(resolverValue)[2][k])
            /\ resolverOut[1].out[1][k] =
                    NativeOf(SourceLimbs(maybe_resolve_union(resolverValue)[2][k]))

\* The row holds, for the field, a value the string resolver does not convert.
Unconvertible(row, name) ==
    /\ RecordGet(row, name) # None
    /\ resolve_string(RecordGet(row, name)[1]).st = "Err"

\* C20: in a Utf8 or LargeUtf8 column a row value the string resolver cannot
\* convert makes next_batch return an error; it is never turned into a null.
C20_StringFailureIsAnError ==
    (lastOp = "next_batch" /\ AllRecords) =>
        \A k \in DOMAIN schema :
            (/\ schema[k].data_type[1] \in {"Utf8", "LargeUtf8"}
             /\ \E i \in DOMAIN buffer :
                    Unconvertible(buffer[i][2][2], schema[k].name)) =>
                result[1].st = "Err"

\* The kinds the numeric resolver has an arm for that yields a number.
NumericSourceKinds ==
    {"Int", "Long", "Float", "Double", "TimeMillis", "Date", "TimeMicros",
     "TimestampMillis", "TimestampMicros"}

\* C21: the boolean and the numeric resolver never abort on a value of an
\* unsupported kind: the boolean resolver given a non-boolean and the numeric
\* resolver given a value that is no number return absent.
C21_UnsupportedKindIsAbsent ==
    resolverOut # None =>
        /\ (/\ resolverOut[1].fn = "resolve_boolean"
            /\ maybe_resolve_union(resolverValue)[1] # "Boolean") =>
                resolverOut[1].out = None
        /\ (/\ resolverOut[1].fn = "resolve"
            /\ maybe_resolve_union(resolverValue)[1] \notin NumericSourceKinds) =>
                resolverOut[1].out = Ok(None)

\* ---------------------------------------------------------------------- C22
\* The EventTime watermarks a run broadcasts from process_batch never
\* decrease: no broadcast carries an earlier time than one broadcast before it.
\* (on_close's final watermark is the last of a run and later than all.)
EventTimesSent == SelectSeq(sent, LAMBDA w : w[1] = "EventTime")

C22_EventTimeNeverDecreases ==
    \A i, j \in DOMAIN EventTimesSent :
        i < j => EventTimesSent[i][2] <= EventTimesSent[j][2]

\* ---------------------------------------------------------------------- C23
\* Watermark::Idle is never broadcast twice in a row: between any two Idle
\* broadcasts of a run there is an EventTime broadcast, and while the generator
\* runs its idle flag is set exactly when its last broadcast was Idle.
C23_IdleNeverTwiceInARow ==
    /\ \A i, j \in DOMAIN sent :
            (i < j /\ sent[i] = Idle /\ sent[j] = Idle)
                => \E k \in DOMAIN sent : i < k /\ k < j /\ sent[k][1] = "EventTime"
    /\ phase = "running"
            => (generator.idle <=> (sent # <<>> /\ sent[Len(sent)] = Idle))

\* A run went idle, woke on a batch and went idle again.
C23_Witness ==
    /\ Len(sent) = 3
    /\ sent[1] = Idle
    /\ sent[2][1] = "EventTime"
    /\ sent[3] = Idle
    /\ generator.idle

\* ---------------------------------------------------------------------- C24
\* A process_batch call on a batch with a maximum timestamp broadcasts one
\* EventTime watermark exactly when the generator was idle or the maximum
\* timestamp is more than interval after last_watermark_emitted_at; a call that
\* broadcasts sets last_watermark_emitted_at to the maximum timestamp and
\* clears idle, and a call that does not leaves both as they were.
BatchCallWithMax ==
    /\ call' # None
    /\ call'[1].fn = "process_batch"
    /\ call'[1].max_timestamp # None
    /\ phase' = "running"

Broadcasts == Len(sent') = Len(sent) + 1 /\ sent'[Len(sent')][1] = "EventTime"

Due ==
    \/ generator.idle
    \/ call'[1].max_timestamp[1]
            > generator.state_cache.last_watermark_emitted_at + generator.interval

C24_BroadcastExactlyWhenDue ==
    [][BatchCallWithMax =>
        /\ Broadcasts <=> Due
        /\ ~Broadcasts => sent' = sent
        /\ Broadcasts =>
              /\ generator'.state_cache.last_watermark_emitted_at
                    = call'[1].max_timestamp[1]
              /\ ~generator'.idle
        /\ ~Broadcasts =>
              /\ generator'.state_cache.last_watermark_emitted_at
                    = generator.state_cache.last_watermark_emitted_at
              /\ generator'.idle = generator.idle]_vars

\* A generator that was never idle has broadcast: the broadcast was due to
\* the interval alone, and moved last_watermark_emitted_at.
C24_Witness ==
    /\ call # None
    /\ call[1].fn = "process_batch"
    /\ call[1].max_timestamp = Some(1)
    /\ generator.idle_time = None
    /\ Len(sent) = 1
    /\ sent[1][1] = "EventTime"
    /\ generator.state_cache.last_watermark_emitted_at = 1

\* ---------------------------------------------------------------------- C25
\* Checkpoint and restore round-trip the state: handle_checkpoint stores
\* state_cache under the task index and nothing else changes the table, and
\* on_start sets state_cache to the entry stored for its task index, or to
\* UNIX_EPOCH in both fields when there is none.
EpochState == [last_watermark_emitted_at |-> UNIX_EPOCH, max_watermark |-> UNIX_EPOCH]

CalledLast(fn) == call' # None /\ call'[1].fn = fn

C25_CheckpointRestoreRoundTrip ==
    [][/\ CalledLast("handle_checkpoint") =>
            /\ DOMAIN table' = DOMAIN table \cup {task_index}
            /\ table'[task_index] = generator.state_cache
            /\ \A i \in DOMAIN table \ {task_index} : table'[i] = table[i]
       /\ ~CalledLast("handle_checkpoint") => table' = table
       /\ CalledLast("on_start") =>
            generator'.state_cache =
                IF task_index \in DOMAIN table THEN table[task_index] ELSE EpochState]_vars

\* A restarted generator took up a stored state that is not the default one,
\* while the other subtask's entry holds a different state.
C25_Witness ==
    /\ call # None
    /\ call[1].fn = "on_start"
    /\ DOMAIN table = TaskIndexes
    /\ table[0] # table[1]
    /\ generator.state_cache = table[task_index]
    /\ generator.state_cache # EpochState

=============================================================================
